---- MODULE Spec2Model ----
(***************************************************************************)
(* compose-apps-exporter (src/main.rs): a Prometheus exporter that, on     *)
(* every GET /metrics, expands the configured globs, asks docker compose   *)
(* for each application's declared services and running containers, and    *)
(* renders one-hot gauges.                                                  *)
(*                                                                         *)
(* Three specifications:                                                   *)
(*   SpecMapper  the pure function config_and_containers_to_metrics over   *)
(*               bounded application definitions and container lists;      *)
(*   SpecConfig  get_config over bounded configuration layers;             *)
(*   Spec        the serving process: a request is handled read by read,   *)
(*               the filesystem and docker compose answering each read.    *)
(*                                                                         *)
(* A text (a Rust String) is a sequence of tokens: a token is either one   *)
(* line's content or the line terminator NL, so that join("\n"), the       *)
(* indoc! literals and push('\n') are modelled character-faithfully as far *)
(* as line structure goes.                                                 *)
(***************************************************************************)
EXTENDS Integers, Sequences, FiniteSets, TLC

VARIABLES
    \* SpecMapper: the arguments and the result of config_and_containers_to_metrics
    m_config, m_containers, m_metrics,
    \* SpecConfig: the configuration sources and the result of get_config
    c_sources, c_result,
    \* Spec: the serving process and its environment
    compose_config_globs, request, response, serving, history, others

vars == <<m_config, m_containers, m_metrics, c_sources, c_result,
          compose_config_globs, request, response, serving, history, others>>

mapperVars == <<m_config, m_containers, m_metrics>>
configVars == <<c_sources, c_result>>
serverVars == <<compose_config_globs, request, response, serving, history, others>>

None == "none"

----------------------------------------------------------------------------
(* Bounds *)

\* longest runtime container list drawn for the mapper
MaxContainers == 2

\* number of filesystem entries the configured globs can match
NumPaths == 2

----------------------------------------------------------------------------
(* Texts *)

Tok(t, fam, compose, service, state, value) ==
    [t |-> t, fam |-> fam, compose |-> compose, service |-> service,
     state |-> state, value |-> value]

\* the character '\n'
NL == Tok("nl", "", "", "", "", 0)

\* "# HELP <fam> ..." and "# TYPE <fam> gauge", without their line terminator
HelpLine(fam) == Tok("help", fam, "", "", "", 0)
TypeLine(fam) == Tok("type", fam, "", "", "", 0)

\* [String]::join(sep)
RECURSIVE Join(_, _)
Join(texts, sep) ==
    IF texts = <<>> THEN <<>>
    ELSE IF Len(texts) = 1 THEN Head(texts)
    ELSE Head(texts) \o sep \o Join(Tail(texts), sep)

\* concatenation of a sequence of sequences (Vec::append in a loop, flat_map)
RECURSIVE Flatten(_)
Flatten(seqs) ==
    IF seqs = <<>> THEN <<>> ELSE Head(seqs) \o Flatten(Tail(seqs))

----------------------------------------------------------------------------
(* Metrics Mapper *)

STATE_NOT_UP == "not_up"
STATE_HEALTH_NO_CHECK == "no_check"
POSSIBLE_STATES_STATE ==
    <<STATE_NOT_UP, "created", "restarting", "running", "removing", "paused",
      "exited", "dead">>
POSSIBLE_STATES_HEALTH ==
    <<STATE_NOT_UP, "no_check", "starting", "healthy", "unhealthy">>

\* format!("compose_service_{}{{{}}} {}", metric_name, labels_str, value):
\* one sample line with labels compose_name, service_name and the extra
\* label state
service_metric_to_string(compose_name, service_name, metric_name, state_label, value) ==
    Tok("sample", "compose_service_" \o metric_name, compose_name, service_name,
        state_label, value)

\* one line per possible value, in table order; 1 where value equals it
service_state_metric_to_strings(compose_name, service_name, metric_name, possible_values, value) ==
    [i \in 1..Len(possible_values) |->
        service_metric_to_string(compose_name, service_name, metric_name,
                                 possible_values[i],
                                 IF value = possible_values[i] THEN 1 ELSE 0)]

\* a lookup that ignores the name and takes the first listed container
FindContainer_AnyName(running_containers, container_name) ==
    IF running_containers = <<>> THEN 0 ELSE 1

\* running_containers.iter().find(|c| c.name == *container_name):
\* the index of the first container of that name, 0 for Option::None
FindContainer(running_containers, container_name) ==
    LET hits == {i \in 1..Len(running_containers) :
                    running_containers[i].name = container_name}
    IN IF hits = {} THEN 0
       ELSE CHOOSE i \in hits : \A j \in hits : i <= j

\* container.map_or(STATE_NOT_UP, |c| &c.state)
EffectiveState(running_containers, container_name) ==
    LET i == FindContainer(running_containers, container_name)
    IN IF i = 0 THEN STATE_NOT_UP ELSE running_containers[i].state

\* a mapper without the Some("") arm: the empty health is passed through
EffectiveHealth_NoEmptyArm(running_containers, container_name) ==
    LET i == FindContainer(running_containers, container_name)
    IN IF i = 0 THEN STATE_NOT_UP ELSE running_containers[i].health

\* match container.map(|c| c.health.as_str()) { None, Some(""), Some(health) }
EffectiveHealth(running_containers, container_name) ==
    LET i == FindContainer(running_containers, container_name)
    IN IF i = 0 THEN STATE_NOT_UP
       ELSE IF running_containers[i].health = "" THEN STATE_HEALTH_NO_CHECK
       ELSE running_containers[i].health

\* the closure of flat_map: the health lines, then the state lines
ServiceMetrics(compose_config, running_containers, service_name) ==
    LET container_name == compose_config.services[service_name]
    IN service_state_metric_to_strings(
           compose_config.name, service_name, "health", POSSIBLE_STATES_HEALTH,
           EffectiveHealth(running_containers, container_name))
       \o
       service_state_metric_to_strings(
           compose_config.name, service_name, "state", POSSIBLE_STATES_STATE,
           EffectiveState(running_containers, container_name))

\* key_order is the order in which HashMap::keys() yields the service names;
\* the lines of all services are collected into one Vec and joined by "\n"
config_and_containers_to_metrics(compose_config, running_containers, key_order) ==
    LET metrics == Flatten([k \in 1..Len(key_order) |->
                      ServiceMetrics(compose_config, running_containers,
                                     key_order[k])])
    IN Join([i \in 1..Len(metrics) |-> <<metrics[i]>>], <<NL>>)

\* the orders a HashMap over the key set S can iterate in
RECURSIVE KeyOrders(_)
KeyOrders(S) ==
    IF S = {} THEN {<<>>}
    ELSE UNION {{<<k>> \o o : o \in KeyOrders(S \ {k})} : k \in S}

----------------------------------------------------------------------------
(* SpecMapper: config_and_containers_to_metrics on bounded inputs *)

ServiceNames == {"web", "db"}
ContainerNames == {"shop_web_1", "shop_db_1"}

\* Container.state and Container.health are free strings (src/main.rs:76,79);
\* the mapper only compares them with the table entries, so the drawn values
\* are table entries plus one string outside each table
ReportedStates == {"created", "running", "exited", "unknown"}
ReportedHealths == {"", "healthy", "unknown"}

Containers ==
    [name : ContainerNames, state : ReportedStates, health : ReportedHealths]

ContainerLists == UNION {[1..n -> Containers] : n \in 0..MaxContainers}

\* ComposeConfig: services maps each service name to its container_name
ComposeConfigs ==
    [name : {"shop"},
     services : UNION {[S -> ContainerNames] : S \in SUBSET ServiceNames}]

NotCalled == [called |-> FALSE, text |-> <<>>]

InitServerIdle ==
    /\ compose_config_globs = <<>>
    /\ request = [phase |-> "idle", req |-> "",
                  reads |-> [globbed |-> <<>>, stats |-> <<>>, calls |-> <<>>,
                            logged |-> <<>>]]
    /\ others = FALSE
    /\ response = [conn |-> "idle", req |-> "", status |-> 0, location |-> "",
                   body |-> <<>>]
    /\ serving = FALSE
    /\ history = FALSE

InitConfigIdle ==
    /\ c_sources = [user |-> <<>>, system |-> <<>>, env |-> <<>>, cli |-> <<>>]
    /\ c_result = [status |-> "none", compose_configs_glob |-> <<>>,
                   port |-> 0, address |-> ""]

InitMapperIdle ==
    /\ m_config = [name |-> "", services |-> <<>>]
    /\ m_containers = <<>>
    /\ m_metrics = NotCalled

InitMapper ==
    /\ m_config \in ComposeConfigs
    /\ m_containers \in ContainerLists
    /\ m_metrics = NotCalled
    /\ InitConfigIdle
    /\ InitServerIdle

MapperCall ==
    /\ ~m_metrics.called
    /\ \E key_order \in KeyOrders(DOMAIN m_config.services) :
          m_metrics' = [called |-> TRUE,
                        text |-> config_and_containers_to_metrics(
                                     m_config, m_containers, key_order)]
    /\ UNCHANGED <<m_config, m_containers, configVars, serverVars>>

NextMapper == MapperCall

SpecMapper == InitMapper /\ [][NextMapper]_vars

----------------------------------------------------------------------------
(* Config Resolver: get_config *)

Fields == {"compose_configs_glob", "port", "address"}

\* figment / serde_json values, tagged with their type
Num(n) == [ty |-> "num", num |-> n, str |-> "", seq |-> <<>>]
Str(x) == [ty |-> "str", num |-> 0, str |-> x, seq |-> <<>>]
Arr(q) == [ty |-> "seq", num |-> 0, str |-> "", seq |-> q]
\* no value: the key is not in the source
Absent == [ty |-> "absent", num |-> 0, str |-> "", seq |-> <<>>]

\* the dictionary holding the keys that have a value
Dict(glob, port, address) ==
    LET all == [f \in Fields |->
                  CASE f = "compose_configs_glob" -> glob
                    [] f = "port" -> port
                    [] f = "address" -> address]
    IN [f \in {g \in Fields : all[g] # Absent} |-> all[f]]

\* #[arg(default_value = ...)] of the three fields
DEFAULT_PORT == 9179
DefaultValue(f) ==
    CASE f = "compose_configs_glob" -> Arr(<<"/etc/compose-apps/*">>)
      [] f = "port" -> Num(DEFAULT_PORT)
      [] f = "address" -> Str("127.0.0.1")

U16_MAX == 65535

ENV_PREFIX == "COMPOSE_APPS_EXPORTER_"

\* Env::prefixed(ENV_PREFIX): a variable counts when its name starts with the
\* prefix; its key is the rest of the name, lower-cased
EnvKey(var) ==
    CASE var = ENV_PREFIX \o "COMPOSE_CONFIGS_GLOB" -> "compose_configs_glob"
      [] var = ENV_PREFIX \o "PORT" -> "port"
      [] var = ENV_PREFIX \o "ADDRESS" -> "address"
      [] OTHER -> None

\* figment's parse of an environment value: a number, a bracketed array of
\* unquoted strings, or else the string itself
EnvValue(raw) ==
    CASE raw = "9100" -> Num(9100)
      [] raw = "[/srv/env/*]" -> Arr(<<"/srv/env/*">>)
      [] OTHER -> Str(raw)

\* the dictionary Env::prefixed(ENV_PREFIX) provides for an environment
EnvDict(env) ==
    LET used == {v \in DOMAIN env : EnvKey(v) # None}
    IN [f \in {EnvKey(v) : v \in used} |->
          EnvValue(env[CHOOSE v \in used : EnvKey(v) = f])]

\* Figment::merge: the incoming provider's values replace the ones present
Merge(figment, incoming) ==
    [f \in DOMAIN figment \cup DOMAIN incoming |->
        IF f \in DOMAIN incoming THEN incoming[f] ELSE figment[f]]

\* Figment::join: the incoming provider only fills the keys still missing
FigmentJoin(figment, incoming) ==
    [f \in DOMAIN figment \cup DOMAIN incoming |->
        IF f \in DOMAIN figment THEN figment[f] ELSE incoming[f]]

\* Config::from_arg_matches: every field, from the command line or defaulted
cli_args(cli) ==
    [f \in Fields |-> IF f \in DOMAIN cli THEN cli[f] ELSE DefaultValue(f)]

\* value_source(k): CommandLine for a passed argument, DefaultValue otherwise
value_source(cli, k) == IF k \in DOMAIN cli THEN "CommandLine" ELSE "DefaultValue"

\* the override layer without the filter on the value source
cli_args_unfiltered(cli) == cli_args(cli)

\* the fields of cli_args whose value source is not DefaultValue
cli_args_without_defaults(cli) ==
    [f \in {k \in Fields : value_source(cli, k) # "DefaultValue"} |-> cli_args(cli)[f]]

\* IpAddr::from_str succeeds on an IPv4 or IPv6 literal
IsIpLiteral(x) == x \in {"127.0.0.1", "0.0.0.0", "10.0.0.1", "10.0.0.2", "::1"}

\* extract::<Config>(): every field present and of the field's type
Extractable(d) ==
    /\ DOMAIN d = Fields
    /\ d["compose_configs_glob"].ty = "seq"
    /\ d["port"].ty = "num" /\ d["port"].num \in 0..U16_MAX
    /\ d["address"].ty = "str"

ConfigError ==
    [status |-> "error", compose_configs_glob |-> <<>>, port |-> 0, address |-> ""]

\* sources: the two YAML files (a missing file is an empty dictionary), the
\* process environment and the parsed command line
get_config(sources) ==
    LET figment ==
          Merge(
            FigmentJoin(
              Merge(Merge(Merge(<<>>, sources.user), sources.system),
                    EnvDict(sources.env)),
              cli_args(sources.cli)),
            cli_args_without_defaults(sources.cli))
    IN IF ~Extractable(figment) THEN ConfigError
       ELSE IF ~IsIpLiteral(figment["address"].str) THEN ConfigError
       ELSE [status |-> "ok",
             compose_configs_glob |-> figment["compose_configs_glob"].seq,
             port |-> figment["port"].num,
             address |-> figment["address"].str]

----------------------------------------------------------------------------
(* SpecConfig: get_config on bounded configuration sources *)

\* what each source may say about each field; Absent: it says nothing.
\* 70000 is outside u16, "localhost" is no IP literal, and the environment
\* value "/srv/env/*" is a string where the field wants an array.
UserFiles ==
    {Dict(g, p, a) : g \in {Absent, Arr(<<"/srv/user/*">>)},
                     p \in {Absent, Num(9000), Num(70000)},
                     a \in {Absent, Str("10.0.0.1"), Str("localhost")}}
SystemFiles ==
    {Dict(g, p, a) : g \in {Absent, Arr(<<"/srv/system/*">>)},
                     p \in {Absent, Num(9001)},
                     a \in {Absent, Str("10.0.0.2")}}
CommandLines ==
    {Dict(g, p, a) : g \in {Absent, Arr(<<"/a/*", "/b/*">>)},
                     p \in {Absent, Num(8000), Num(DEFAULT_PORT)},
                     a \in {Absent, Str("0.0.0.0")}}

\* environments: variable name -> raw value; PORT lacks the prefix
EnvVars ==
    {ENV_PREFIX \o "COMPOSE_CONFIGS_GLOB", ENV_PREFIX \o "PORT",
     ENV_PREFIX \o "ADDRESS", "PORT"}
EnvRaw(var) ==
    CASE var = ENV_PREFIX \o "COMPOSE_CONFIGS_GLOB" -> {"[/srv/env/*]", "/srv/env/*"}
      [] var = ENV_PREFIX \o "PORT" -> {"9100"}
      [] var = ENV_PREFIX \o "ADDRESS" -> {"::1"}
      [] var = "PORT" -> {"9100"}
Environments ==
    UNION {{e \in [V -> {"[/srv/env/*]", "/srv/env/*", "9100", "::1"}] :
                \A v \in V : e[v] \in EnvRaw(v)} : V \in SUBSET EnvVars}

ConfigSources ==
    [user : UserFiles, system : SystemFiles, env : Environments, cli : CommandLines]

NotResolved ==
    [status |-> "none", compose_configs_glob |-> <<>>, port |-> 0, address |-> ""]

InitConfig ==
    /\ c_sources \in ConfigSources
    /\ c_result = NotResolved
    /\ m_config = [name |-> "", services |-> <<>>]
    /\ m_containers = <<>>
    /\ m_metrics = NotCalled
    /\ InitServerIdle

\* main: get_config runs once, before the listener is bound
GetConfig ==
    /\ c_result.status = "none"
    /\ c_result' = get_config(c_sources)
    /\ UNCHANGED <<c_sources, mapperVars, serverVars>>

NextConfig == GetConfig

SpecConfig == InitConfig /\ [][NextConfig]_vars

----------------------------------------------------------------------------
(* The environment, as the handler reads it *)

\* The handler reads the filesystem and docker compose in sequence: one
\* directory listing per glob pattern, one stat per path matched, then for
\* each definition path `docker compose config` and `docker compose ps`.
\* The filesystem and the containers are free to change between any two of
\* these reads, so each read is an input of its own: its outcome is drawn
\* when the read is made and kept in the request's log of reads. The write
\* of the diagnostic to the process's stderr, which can fail as well (a pipe
\* whose reader is gone, a full disk), is logged with them.

\* The filesystem entries the configured globs can match are numbered
\* 1..NumPaths; entry p is /etc/compose-apps/<p>.
Paths == 1..NumPaths

\* how the is_dir / is_file test of a matched path ends: a directory, a
\* regular file, or neither (a broken symlink, an entry removed since the
\* listing)
Kinds == {"dir", "file", "other"}

\* how a docker compose call ends:
\*   ok     exit status 0 and parsable output
\*   spawn  the docker binary cannot be started
\*   exit   non-zero exit status
\*   parse  exit status 0 and output that does not deserialize
ExecOutcomes == {"ok", "spawn", "exit", "parse"}

\* the definition `docker compose config` prints for the file at entry p:
\* the last entry declares two services, the others one
AppName(p) == "app" \o ToString(p)
Definition(p) ==
    [name |-> AppName(p),
     services |->
        IF p = NumPaths
        THEN [sv \in {"web", "db"} |-> AppName(p) \o "_" \o sv \o "_1"]
        ELSE [sv \in {"web"} |-> AppName(p) \o "_" \o sv \o "_1"]]

\* the container lists `docker compose ps` may print for entry p: nothing
\* running, the web container running and healthy, or the web container in a
\* state the exporter has no table entry for
PsLists(p) ==
    {<<>>,
     <<[name |-> AppName(p) \o "_web_1", state |-> "running", health |-> "healthy"]>>,
     <<[name |-> AppName(p) \o "_web_1", state |-> "unknown", health |-> ""]>>}

\* the patterns of compose_configs_glob and the entries each can match
PatternAll == "/etc/compose-apps/*"
PatternFirst == "/etc/compose-apps/1*"
PatternInvalid == "/etc/compose-apps/["
PatternMatches(pattern) ==
    CASE pattern = PatternAll -> Paths
      [] pattern = PatternFirst -> {1}
      [] OTHER -> {}

\* the glob lists this process may have been configured with
GlobLists ==
    {<<PatternAll>>, <<PatternFirst, PatternAll>>, <<PatternAll, PatternInvalid>>}

\* an ascending enumeration of a set of entries, as the glob iterator yields
\* the sorted directory listing
RECURSIVE Sorted(_)
Sorted(S) ==
    IF S = {} THEN <<>>
    ELSE LET m == CHOOSE x \in S : \A y \in S : x <= y
         IN <<m>> \o Sorted(S \ {m})

\* what iterating glob::glob(pattern) can yield: the matching entries that
\* exist at that moment, in order, or a GlobError (an unreadable directory)
GlobReads(pattern) ==
    {[ok |-> FALSE, paths |-> <<>>]}
    \cup {[ok |-> TRUE, paths |-> Sorted(S)] : S \in SUBSET PatternMatches(pattern)}

\* one docker compose call: the sub-command, how it ended and, for a `ps`
\* that ended ok, the containers it listed and the order in which the
\* HashMap of services was then iterated
Call(sub, out, containers, key_order) ==
    [sub |-> sub, out |-> out, containers |-> containers, key_order |-> key_order]
\* a call the handler did not get to
NoCall == Call("", "unreached", <<>>, <<>>)

ConfigCalls == {Call("config", out, <<>>, <<>>) : out \in ExecOutcomes}
PsCalls(p) ==
    {Call("ps", out, <<>>, <<>>) : out \in ExecOutcomes \ {"ok"}}
    \cup {Call("ps", "ok", l, o) :
            l \in PsLists(p), o \in KeyOrders(DOMAIN Definition(p).services)}

\* the log of reads of one request; logged holds, once the diagnostic has
\* been printed, whether the write to stderr went through
Reads(globbed, stats, calls, logged) ==
    [globbed |-> globbed, stats |-> stats, calls |-> calls, logged |-> logged]
NoReads == Reads(<<>>, <<>>, <<>>, <<>>)

----------------------------------------------------------------------------
(* App Locator *)

\* the paths the glob iterators yielded, pattern after pattern
Items(reads) == Flatten([k \in 1..Len(reads.globbed) |-> reads.globbed[k].paths])

\* a definition path: the matched entry, or docker-compose.yml inside it
ConfigPath(p, joined) == [base |-> p, joined |-> joined]

LocatorResult(outcome, paths) == [outcome |-> outcome, paths |-> paths]

\* outcome "ok" with the definition paths, "err" for Err(..) (an invalid
\* pattern, a GlobError), "panic" for the panic!("Invalid path: ...") of the
\* third branch
config_paths_from_globs(config_path_globs, reads) ==
    IF \E k \in 1..Len(config_path_globs) : config_path_globs[k] = PatternInvalid
    THEN LocatorResult("err", <<>>)
    ELSE IF \E k \in 1..Len(reads.globbed) : ~reads.globbed[k].ok
    THEN LocatorResult("err", <<>>)
    ELSE IF \E i \in 1..Len(reads.stats) : reads.stats[i] \notin {"dir", "file"}
    THEN LocatorResult("panic", <<>>)
    ELSE LocatorResult("ok",
            [i \in 1..Len(reads.stats) |->
                ConfigPath(Items(reads)[i], reads.stats[i] = "dir")])

----------------------------------------------------------------------------
(* Runtime Inspector *)

\* Result<Vec<u8>, _>: Err when the command cannot be started or exits
\* non-zero; else the bytes printed, which parse or do not
exec_docker_compose_cmd(call) ==
    IF call.out \in {"spawn", "exit", "unreached"}
    THEN [ok |-> FALSE, parsable |-> FALSE]
    ELSE [ok |-> TRUE, parsable |-> call.out = "ok"]

ReadErr == [ok |-> FALSE, config |-> [name |-> "", services |-> <<>>],
            containers |-> <<>>]

\* serde_yaml::from_slice over the output of `docker compose -f <path> config`
read_compose_config(config_path, call) ==
    LET out == exec_docker_compose_cmd(call)
    IN IF ~out.ok \/ ~out.parsable THEN ReadErr
       ELSE [ok |-> TRUE, config |-> Definition(config_path.base),
             containers |-> <<>>]

\* serde_json::from_slice over the output of `docker compose ps --format json`
read_running_compose_containers(config_path, call) ==
    LET out == exec_docker_compose_cmd(call)
    IN IF ~out.ok \/ ~out.parsable THEN ReadErr
       ELSE [ok |-> TRUE, config |-> [name |-> "", services |-> <<>>],
             containers |-> call.containers]

----------------------------------------------------------------------------
(* Aggregator and Text Renderer *)

ResultOk(text) == [ok |-> TRUE, text |-> text]
ResultErr == [ok |-> FALSE, text |-> <<>>]

\* the `?` after read_compose_config returns before `ps` is run
get_metrics_for_config_path(config_path, config_call, ps_call) ==
    LET config == read_compose_config(config_path, config_call)
    IN IF ~config.ok THEN ResultErr
       ELSE LET running_containers ==
                    read_running_compose_containers(config_path, ps_call)
            IN IF ~running_containers.ok THEN ResultErr
               ELSE ResultOk(config_and_containers_to_metrics(
                        config.config, running_containers.containers,
                        ps_call.key_order))

\* indoc! keeps the newline that ends each line of the literal
config_metrics_comment ==
    <<HelpLine("compose_service_up"), NL, TypeLine("compose_service_up"), NL,
      HelpLine("compose_service_health"), NL, TypeLine("compose_service_health"), NL>>

nbro_configs_metric(nbro_config_paths) ==
    <<HelpLine("compose_apps_nbro_configs"), NL,
      TypeLine("compose_apps_nbro_configs"), NL,
      Tok("sample", "compose_apps_nbro_configs", "", "", "", nbro_config_paths), NL>>

\* the calls made for config_paths[i]: the (2i-1)th and the (2i)th of the log
CallAt(calls, n) == IF n <= Len(calls) THEN calls[n] ELSE NoCall

\* collect::<Result<Vec<_>, _>>() is Err as soon as one application's
\* derivation is, and the applications after it are not derived
get_metrics_for_configs_paths(config_paths, calls) ==
    LET results == [i \in 1..Len(config_paths) |->
                      get_metrics_for_config_path(config_paths[i],
                          CallAt(calls, 2 * i - 1), CallAt(calls, 2 * i))]
    IN IF \E i \in 1..Len(results) : ~results[i].ok THEN ResultErr
       ELSE ResultOk(config_metrics_comment
                     \o Join([i \in 1..Len(results) |-> results[i].text], <<NL>>)
                     \o <<NL>>
                     \o nbro_configs_metric(Len(config_paths)))

\* a scrape that fails once an earlier scrape has failed
get_metrics_sticky_failure(config_globs, reads) ==
    LET located == config_paths_from_globs(config_globs, reads)
    IN IF history \/ located.outcome = "err" THEN [outcome |-> "err", text |-> <<>>]
       ELSE IF located.outcome = "panic" THEN [outcome |-> "panic", text |-> <<>>]
       ELSE LET r == get_metrics_for_configs_paths(located.paths, reads.calls)
            IN [outcome |-> IF r.ok THEN "ok" ELSE "err", text |-> r.text]

\* outcome "ok" | "err" | "panic"
get_metrics_for_config_globs(config_globs, reads) ==
    LET located == config_paths_from_globs(config_globs, reads)
    IN IF located.outcome # "ok" THEN [outcome |-> located.outcome, text |-> <<>>]
       ELSE LET r == get_metrics_for_configs_paths(located.paths, reads.calls)
            IN [outcome |-> IF r.ok THEN "ok" ELSE "err", text |-> r.text]

----------------------------------------------------------------------------
(* HTTP: handle_request *)

Requests == {"GET /", "GET /metrics", "POST /metrics", "GET /favicon.ico"}

Text(x) == Tok("text", "", "", "", x, 0)
GenericBody == <<Text("Internal server error. Check logs for details.")>>

\* what the client gets: conn is "answered" with a status, a Location header
\* and a body, or "aborted" when the handler panicked and the connection was
\* dropped without a response; "idle" when there is none
Answer(req, status, location, body) ==
    [conn |-> "answered", req |-> req, status |-> status, location |-> location,
     body |-> body]
Aborted(req) ==
    [conn |-> "aborted", req |-> req, status |-> 0, location |-> "", body |-> <<>>]
Idle == [conn |-> "idle", req |-> "", status |-> 0, location |-> "", body |-> <<>>]

handle_request(compose_config_globs_, req, reads) ==
    IF req = "GET /" THEN Answer(req, 308, "/metrics", <<>>)
    ELSE IF req = "GET /metrics"
    THEN LET maybe_metrics == get_metrics_for_config_globs(compose_config_globs_, reads)
         IN CASE maybe_metrics.outcome = "ok" ->
                    Answer(req, 200, "", maybe_metrics.text \o <<NL>>)
              [] maybe_metrics.outcome = "err" ->
                    \* eprintln! panics when the write to stderr fails, and
                    \* it runs before the body is built
                    IF reads.logged = <<TRUE>>
                    THEN Answer(req, 500, "", GenericBody)
                    ELSE Aborted(req)
              [] maybe_metrics.outcome = "panic" -> Aborted(req)
    ELSE Answer(req, 404, "", <<>>)

\* The read get_metrics_for_config_globs makes next, given the reads made so
\* far: "glob", "stat", "config", "ps", or "none" when it returns or panics.
\* Every pattern is compiled before any is iterated; every path is stat'ed
\* before docker compose is first called; the first Err or panic ends it.
PendingDerivation(compose_config_globs_, req, reads) ==
    IF req # "GET /metrics" THEN "none"
    ELSE IF \E k \in 1..Len(compose_config_globs_) :
                compose_config_globs_[k] = PatternInvalid THEN "none"
    ELSE IF \E k \in 1..Len(reads.globbed) : ~reads.globbed[k].ok THEN "none"
    ELSE IF Len(reads.globbed) < Len(compose_config_globs_) THEN "glob"
    ELSE IF \E i \in 1..Len(reads.stats) : reads.stats[i] \notin {"dir", "file"}
         THEN "none"
    ELSE IF Len(reads.stats) < Len(Items(reads)) THEN "stat"
    ELSE IF \E n \in 1..Len(reads.calls) : reads.calls[n].out # "ok" THEN "none"
    ELSE IF Len(reads.calls) >= 2 * Len(Items(reads)) THEN "none"
    ELSE IF Len(reads.calls) % 2 = 0 THEN "config" ELSE "ps"

\* Whether a derivation that has made all its reads returns Err: the locator
\* does, or one of the docker compose calls failed.
DerivationErr(compose_config_globs_, reads) ==
    LET located == config_paths_from_globs(compose_config_globs_, reads)
    IN \/ located.outcome = "err"
       \/ /\ located.outcome = "ok"
          /\ \E n \in 1..Len(reads.calls) : reads.calls[n].out # "ok"

\* The step the handler makes next: a read of the derivation, "log" when the
\* derivation has returned Err and the diagnostic is yet to be printed, or
\* "none" when it has all it needs to answer.
Pending(compose_config_globs_, req, reads) ==
    LET derivation == PendingDerivation(compose_config_globs_, req, reads)
    IN IF derivation # "none" \/ req # "GET /metrics" THEN derivation
       ELSE IF DerivationErr(compose_config_globs_, reads) /\ reads.logged = <<>>
            THEN "log"
       ELSE "none"

\* A panic unwinds out of the connection's task only: the runtime that
\* main built keeps the listener and the other tasks going. No path of
\* handle_request ends the process.
ProcessSurvives(r) == r.conn \in {"answered", "aborted"}

----------------------------------------------------------------------------
(* Spec: the serving process *)

\* One connection is followed read by read. The tasks of the other
\* connections run the same handler on their own clone of the globs and
\* share no variable with it or with each other; `others` tells whether any
\* of them is handling a request at the moment.

NoRequest == [phase |-> "idle", req |-> "", reads |-> NoReads]

\* after main has resolved the configuration and bound the listener
Init ==
    /\ compose_config_globs \in GlobLists
    /\ request = NoRequest
    /\ response = Idle
    /\ serving = TRUE
    /\ history = FALSE
    /\ others = FALSE
    /\ InitMapperIdle
    /\ InitConfigIdle

Running == request.phase = "running"
PendingRead == Pending(compose_config_globs, request.req, request.reads)

\* hyper hands a request read from the connection to handle_request
Accept(req) ==
    /\ serving
    /\ request.phase = "idle"
    /\ request' = [phase |-> "running", req |-> req, reads |-> NoReads]
    /\ UNCHANGED <<compose_config_globs, response, serving, history, others,
                   mapperVars, configVars>>

\* the iterator of the next pattern is drained
GlobRead ==
    /\ Running /\ PendingRead = "glob"
    /\ \E r \in GlobReads(compose_config_globs[Len(request.reads.globbed) + 1]) :
          request' = [request EXCEPT !.reads.globbed = Append(@, r)]
    /\ UNCHANGED <<compose_config_globs, response, serving, history, others,
                   mapperVars, configVars>>

\* path.is_dir() / path.is_file() of the next path
StatRead ==
    /\ Running /\ PendingRead = "stat"
    /\ \E kind \in Kinds :
          request' = [request EXCEPT !.reads.stats = Append(@, kind)]
    /\ UNCHANGED <<compose_config_globs, response, serving, history, others,
                   mapperVars, configVars>>

\* the path whose docker compose call is next
NextPath == Items(request.reads)[(Len(request.reads.calls) \div 2) + 1]

\* `docker compose -f <path> config` returns
ConfigCall ==
    /\ Running /\ PendingRead = "config"
    /\ \E c \in ConfigCalls :
          request' = [request EXCEPT !.reads.calls = Append(@, c)]
    /\ UNCHANGED <<compose_config_globs, response, serving, history, others,
                   mapperVars, configVars>>

\* `docker compose -f <path> ps --format json` returns
PsCall ==
    /\ Running /\ PendingRead = "ps"
    /\ \E c \in PsCalls(NextPath) :
          request' = [request EXCEPT !.reads.calls = Append(@, c)]
    /\ UNCHANGED <<compose_config_globs, response, serving, history, others,
                   mapperVars, configVars>>

\* eprintln!("Error while handling /metrics request: ...") writes to stderr
LogWrite ==
    /\ Running /\ PendingRead = "log"
    /\ \E written \in BOOLEAN :
          request' = [request EXCEPT !.reads.logged = Append(@, written)]
    /\ UNCHANGED <<compose_config_globs, response, serving, history, others,
                   mapperVars, configVars>>

\* handle_request returns (or panics) with what it has read; history records
\* whether a scrape has failed so far
Respond ==
    /\ Running /\ PendingRead = "none"
    /\ LET r == handle_request(compose_config_globs, request.req, request.reads)
       IN /\ response' = r
          /\ serving' = ProcessSurvives(r)
          /\ history' = (history \/ (request.req = "GET /metrics" /\ r.status # 200))
    /\ request' = [request EXCEPT !.phase = "done"]
    /\ UNCHANGED <<compose_config_globs, others, mapperVars, configVars>>

\* the response has been written; the connection is idle again
Deliver ==
    /\ request.phase = "done"
    /\ request' = NoRequest
    /\ response' = Idle
    /\ UNCHANGED <<compose_config_globs, serving, history, others,
                   mapperVars, configVars>>

\* the task of another connection takes up a request
OtherAccept ==
    /\ serving
    /\ ~others
    /\ others' = TRUE
    /\ UNCHANGED <<compose_config_globs, request, response, serving, history,
                   mapperVars, configVars>>

\* the tasks of the other connections have answered, a scrape among their
\* requests having failed or not
OtherRespond ==
    /\ others
    /\ others' = FALSE
    /\ \E failed \in BOOLEAN : history' = (history \/ failed)
    /\ UNCHANGED <<compose_config_globs, request, response, serving,
                   mapperVars, configVars>>

Next ==
    \/ \E req \in Requests : Accept(req)
    \/ GlobRead
    \/ StatRead
    \/ ConfigCall
    \/ PsCall
    \/ LogWrite
    \/ Respond
    \/ Deliver
    \/ OtherAccept
    \/ OtherRespond

Spec == Init /\ [][Next]_vars

----------------------------------------------------------------------------
(* Reading a metrics text back *)

\* the lines of a text: the maximal runs of tokens between line terminators
NonNL(text) == SelectSeq(text, LAMBDA tk : tk.t # "nl")
Samples(text) == SelectSeq(text, LAMBDA tk : tk.t = "sample")

\* the sample lines of one service of one application in one metric family
LinesOf(text, fam, compose, service) ==
    SelectSeq(text, LAMBDA tk : /\ tk.t = "sample"
                                /\ tk.fam = fam
                                /\ tk.compose = compose
                                /\ tk.service = service)

Ones(lines) == {i \in 1..Len(lines) : lines[i].value = 1}

\* exactly one line carries 1, every other line 0
OneHot(lines) ==
    /\ \A i \in 1..Len(lines) : lines[i].value \in {0, 1}
    /\ Cardinality(Ones(lines)) = 1

\* the line labelled label carries 1, every other line 0
OneHotAt(lines, label) ==
    /\ OneHot(lines)
    /\ \A i \in 1..Len(lines) : (lines[i].value = 1) <=> (lines[i].state = label)

\* the runtime container that decides a service: the first one of that name
Decides(containers, i, container_name) ==
    /\ i \in 1..Len(containers)
    /\ containers[i].name = container_name
    /\ \A j \in 1..(i - 1) : containers[j].name # container_name

Unmatched(containers, container_name) ==
    \A i \in 1..Len(containers) : containers[i].name # container_name

RuntimeStates ==
    {"created", "restarting", "running", "removing", "paused", "exited", "dead"}
RuntimeHealths == {"", "starting", "healthy", "unhealthy"}

\* a container whose state or health lies outside the runtime's vocabulary
Unrecognized(c) == c.state \notin RuntimeStates \/ c.health \notin RuntimeHealths

----------------------------------------------------------------------------
(* Claims settled under SpecMapper *)

\* C1: for every definition, every declared service and every container
\* list, whatever state or health strings the containers report, the service
\* gets exactly 8 compose_service_state lines and 5 compose_service_health
\* lines, every value is 0 or 1, and each dimension has exactly one 1.
C1_OneHotForAnyReportedString ==
    m_metrics.called =>
        \A s \in DOMAIN m_config.services :
            LET st == LinesOf(m_metrics.text, "compose_service_state",
                              m_config.name, s)
                he == LinesOf(m_metrics.text, "compose_service_health",
                              m_config.name, s)
            IN /\ Len(st) = 8
               /\ Len(he) = 5
               /\ OneHot(st)
               /\ OneHot(he)

\* C2: when no declared service's container name equals the name of any
\* runtime container, the text has exactly S x 13 lines, all of them samples,
\* and for every service the not_up line of each dimension carries 1 and
\* every other line 0.
C2_UnmatchedServicesAreNotUp ==
    (/\ m_metrics.called
     /\ \A s \in DOMAIN m_config.services :
            Unmatched(m_containers, m_config.services[s]))
    => /\ Len(NonNL(m_metrics.text)) = Cardinality(DOMAIN m_config.services) * 13
       /\ Len(Samples(m_metrics.text)) = Cardinality(DOMAIN m_config.services) * 13
       /\ \A s \in DOMAIN m_config.services :
            /\ OneHotAt(LinesOf(m_metrics.text, "compose_service_state",
                                m_config.name, s), "not_up")
            /\ OneHotAt(LinesOf(m_metrics.text, "compose_service_health",
                                m_config.name, s), "not_up")

\* two declared services, a non-empty container list, no name in common
C2_Witness ==
    /\ m_metrics.called
    /\ Cardinality(DOMAIN m_config.services) = 2
    /\ m_containers # <<>>
    /\ \A s \in DOMAIN m_config.services :
            Unmatched(m_containers, m_config.services[s])
    /\ Len(Samples(m_metrics.text)) = 26

\* C7: when the first runtime container carrying a service's container name
\* reports an empty health string (and a state of the runtime's vocabulary),
\* the service's state lines are one-hot at that container's state and its
\* health lines are one-hot at no_check; later containers of the same name
\* decide nothing.
C7_EmptyHealthIsNoCheck ==
    m_metrics.called =>
        \A s \in DOMAIN m_config.services :
            \A i \in 1..Len(m_containers) :
                (/\ Decides(m_containers, i, m_config.services[s])
                 /\ m_containers[i].health = ""
                 /\ m_containers[i].state \in RuntimeStates)
                => /\ OneHotAt(LinesOf(m_metrics.text, "compose_service_state",
                                       m_config.name, s), m_containers[i].state)
                   /\ OneHotAt(LinesOf(m_metrics.text, "compose_service_health",
                                       m_config.name, s), "no_check")

\* two containers of the service's name: the first running without a health
\* check, the second exited and healthy; the running line carries the 1
C7_Witness ==
    /\ m_metrics.called
    /\ \E s \in DOMAIN m_config.services :
          /\ Len(m_containers) = 2
          /\ m_containers[1].name = m_config.services[s]
          /\ m_containers[2].name = m_config.services[s]
          /\ m_containers[1].health = "" /\ m_containers[1].state = "running"
          /\ m_containers[2].health = "healthy" /\ m_containers[2].state = "exited"
          /\ \E k \in 1..Len(m_metrics.text) :
                /\ m_metrics.text[k].fam = "compose_service_state"
                /\ m_metrics.text[k].service = s
                /\ m_metrics.text[k].state = "running"
                /\ m_metrics.text[k].value = 1

----------------------------------------------------------------------------
(* Claims settled under SpecConfig *)

\* the value the environment supplies for a field, Absent when it has none
EnvSupplied(env, f) ==
    CASE f = "compose_configs_glob" /\ (ENV_PREFIX \o "COMPOSE_CONFIGS_GLOB") \in DOMAIN env
            -> EnvValue(env[ENV_PREFIX \o "COMPOSE_CONFIGS_GLOB"])
      [] f = "port" /\ (ENV_PREFIX \o "PORT") \in DOMAIN env
            -> EnvValue(env[ENV_PREFIX \o "PORT"])
      [] f = "address" /\ (ENV_PREFIX \o "ADDRESS") \in DOMAIN env
            -> EnvValue(env[ENV_PREFIX \o "ADDRESS"])
      [] OTHER -> Absent

\* the value of the highest layer that supplies the field
ByPrecedence(sources, f) ==
    IF f \in DOMAIN sources.cli THEN sources.cli[f]
    ELSE IF EnvSupplied(sources.env, f) # Absent THEN EnvSupplied(sources.env, f)
    ELSE IF f \in DOMAIN sources.system THEN sources.system[f]
    ELSE IF f \in DOMAIN sources.user THEN sources.user[f]
    ELSE DefaultValue(f)

\* C6: when get_config resolves a configuration, each field holds the value
\* of the highest-precedence layer that explicitly supplies it (user file <
\* system file < environment < passed command-line argument), the built-in
\* default only when no layer does; a defaulted command-line argument
\* overrides nothing.
C6_HighestSupplyingLayerWins ==
    c_result.status = "ok" =>
        /\ c_result.compose_configs_glob =
              ByPrecedence(c_sources, "compose_configs_glob").seq
        /\ c_result.port = ByPrecedence(c_sources, "port").num
        /\ c_result.address = ByPrecedence(c_sources, "address").str

\* the user file sets port 9000, no other layer names the port, the command
\* line passes only an address: the port resolves to 9000, not to 9179
C6_Witness ==
    /\ c_result.status = "ok"
    /\ "port" \in DOMAIN c_sources.user /\ c_sources.user["port"].num = 9000
    /\ "port" \notin DOMAIN c_sources.system
    /\ (ENV_PREFIX \o "PORT") \notin DOMAIN c_sources.env
    /\ DOMAIN c_sources.cli = {"address"}
    /\ c_result.port = 9000

----------------------------------------------------------------------------
(* Claims settled under Spec *)

\* The predicates below are about the request that has just been answered:
\* its log holds what the handler found in the filesystem and got from
\* docker compose while it ran.

Scraped == request.phase = "done" /\ request.req = "GET /metrics"

GlobsValid ==
    \A i \in 1..Len(compose_config_globs) : compose_config_globs[i] # PatternInvalid

\* every glob is valid, every listing was read, every path matched was found
\* to be a directory or a file
LocatorFine ==
    /\ GlobsValid
    /\ \A k \in 1..Len(request.reads.globbed) : request.reads.globbed[k].ok
    /\ \A i \in 1..Len(request.reads.stats) : request.reads.stats[i] \in {"dir", "file"}

\* some docker compose call could not be started, exited non-zero or printed
\* unparsable output
SomeCallFailed ==
    \E n \in 1..Len(request.reads.calls) : request.reads.calls[n].out # "ok"

\* nothing failed while the request ran
AllDerivable == LocatorFine /\ ~SomeCallFailed

RECURSIVE SumOver(_, _)
SumOver(S, f) ==
    IF S = {} THEN 0
    ELSE LET x == CHOOSE y \in S : TRUE IN f[x] + SumOver(S \ {x}, f)

\* candidate definition paths, an entry counted once per pattern listing it
NumLocated ==
    SumOver(1..Len(request.reads.globbed),
            [k \in 1..Len(request.reads.globbed) |->
                Len(request.reads.globbed[k].paths)])

\* declared services over all candidate definition paths
NumServices ==
    SumOver(1..Len(request.reads.globbed),
            [k \in 1..Len(request.reads.globbed) |->
                LET ps == request.reads.globbed[k].paths
                IN SumOver(1..Len(ps),
                       [i \in 1..Len(ps) |->
                           Cardinality(DOMAIN Definition(ps[i]).services)])])

\* C3: if the locator succeeds and the derivation of any located application
\* fails (a docker compose call cannot be started, exits non-zero or prints
\* unparsable output), the response is 500 with the generic body and holds
\* no metric line of any application, however many derived before it.
C3_OneFailingAppFailsTheScrape ==
    (Scraped /\ LocatorFine /\ SomeCallFailed)
    => /\ response.conn = "answered"
       /\ response.status = 500
       /\ response.body = GenericBody
       /\ Samples(response.body) = <<>>

\* C4: when a glob expands to an entry that is neither a directory nor a
\* regular file, the scrape is answered with status 500 and no metric line.
C4_BrokenEntryAnswers500 ==
    (/\ Scraped
     /\ GlobsValid
     /\ \A k \in 1..Len(request.reads.globbed) : request.reads.globbed[k].ok
     /\ \E i \in 1..Len(request.reads.stats) : request.reads.stats[i] = "other")
    => /\ response.conn = "answered"
       /\ response.status = 500
       /\ Samples(response.body) = <<>>

\* C5: when the container that decides a declared service reports a state or
\* a health outside the runtime's vocabulary, the scrape fails with 500.
C5_UnrecognizedValueFailsTheScrape ==
    (/\ Scraped
     /\ AllDerivable
     /\ \E i \in 1..Len(Items(request.reads)) :
          LET p == Items(request.reads)[i]
              listed == request.reads.calls[2 * i].containers
          IN \E sv \in DOMAIN Definition(p).services :
                \E j \in 1..Len(listed) :
                    /\ Decides(listed, j, Definition(p).services[sv])
                    /\ Unrecognized(listed[j]))
    => response.status = 500

\* C8: the process keeps serving whatever the earlier scrapes did, and a
\* scrape is decided by what the filesystem and docker compose gave during
\* that request alone: it succeeds exactly when nothing failed while it ran,
\* and then carries the 13 lines of every declared service of every
\* candidate path and the count of candidate paths, whether or not an
\* earlier scrape failed.
C8_ScrapesAreIndependent ==
    /\ serving
    /\ Scraped =>
        /\ (response.conn = "answered" /\ response.status = 200) <=> AllDerivable
        /\ AllDerivable =>
            /\ Len(Samples(response.body)) = 13 * NumServices + 1
            /\ \E k \in 1..Len(response.body) :
                  /\ response.body[k].t = "sample"
                  /\ response.body[k].fam = "compose_apps_nbro_configs"
                  /\ response.body[k].value = NumLocated

\* a scrape has failed before, and this one returns the full body of every
\* entry
C8_Witness ==
    /\ serving
    /\ history
    /\ Scraped
    /\ response.status = 200
    /\ NumLocated >= NumPaths
    /\ Len(Samples(response.body)) = 13 * NumServices + 1

MetricFamilies ==
    {"compose_service_state", "compose_service_health", "compose_apps_nbro_configs"}

\* C9: a successful body declares each of the three metric families with a
\* HELP and a TYPE line, and every declaration line precedes the first sample.
C9_DeclarationsForEveryFamilyFirst ==
    (Scraped /\ response.status = 200) =>
        LET body == response.body
        IN /\ \A fam \in MetricFamilies :
                /\ \E k \in 1..Len(body) : body[k].t = "help" /\ body[k].fam = fam
                /\ \E k \in 1..Len(body) : body[k].t = "type" /\ body[k].fam = fam
           /\ \A i, j \in 1..Len(body) :
                (body[i].t \in {"help", "type"} /\ body[j].t = "sample") => i < j

\* C10: a successful body ends with the compose_apps_nbro_configs sample and
\* exactly one line terminator after it.
C10_ExactlyOneTrailingNewline ==
    (Scraped /\ response.status = 200) =>
        LET body == response.body
            n == Len(body)
        IN /\ n >= 2
           /\ body[n] = NL
           /\ body[n - 1].t = "sample"
           /\ body[n - 1].fam = "compose_apps_nbro_configs"

====
